---- MODULE Spec2Model ----
(***************************************************************************)
(* A model of iz (src/src/main.rs): a directory-listing command.  run      *)
(* parses its arguments into three flags and a list of target paths and    *)
(* then describes (display_info) or lists (display_dir) each target;       *)
(* get_size sums file lengths under a path and pretty_format_bytes renders *)
(* a byte count.                                                           *)
(*                                                                         *)
(* Strings are sequences of one-character strings, so that starts_with and *)
(* the per-character loop over a flag cluster are computed, not assumed.   *)
(* Byte counts handed to pretty_format_bytes are naturals written in base  *)
(* KILOBYTE, least significant limb first, without leading zero limbs:     *)
(* 2^64 does not fit a TLC integer.                                        *)
(***************************************************************************)
EXTENDS Integers, Sequences, FiniteSets

\* ------------------------------------------------------------------------
\* Naturals in base KILOBYTE (little endian), and f64 arithmetic on them
\* ------------------------------------------------------------------------

\* const KILOBYTE: f64 = 1_000.0
KILOBYTE == 1000

\* x without its most significant zero limbs
Norm(x) ==
  LET nz == {i \in 1..Len(x) : x[i] # 0}
  IN  IF nz = {} THEN <<>>
      ELSE SubSeq(x, 1, CHOOSE i \in nz : \A j \in nz : j <= i)

RECURSIVE ToBig(_)
\* a TLC natural as limbs
ToBig(n) == IF n = 0 THEN <<>> ELSE <<n % KILOBYTE>> \o ToBig(n \div KILOBYTE)

Limb(x, i) == IF 1 <= i /\ i <= Len(x) THEN x[i] ELSE 0

\* -1, 0, 1: x against y, decided by the most significant limb they differ in
Cmp(x, y) ==
  LET n == IF Len(x) > Len(y) THEN Len(x) ELSE Len(y)
      df == {i \in 1..n : Limb(x, i) # Limb(y, i)}
      top == CHOOSE i \in df : \A j \in df : j <= i
  IN  IF df = {} THEN 0 ELSE IF Limb(x, top) < Limb(y, top) THEN -1 ELSE 1

Geq(x, y) == Cmp(x, y) >= 0

RECURSIVE AddCarry(_, _, _)
AddCarry(x, y, c) ==
  IF x = <<>> /\ y = <<>> THEN (IF c = 0 THEN <<>> ELSE <<c>>)
  ELSE LET s == Limb(x, 1) + Limb(y, 1) + c
       IN  <<s % KILOBYTE>> \o
           AddCarry(IF x = <<>> THEN <<>> ELSE Tail(x),
                    IF y = <<>> THEN <<>> ELSE Tail(y), s \div KILOBYTE)

Add(x, y) == AddCarry(x, y, 0)

\* 2 * x: a limb's carry into the next is 1 exactly when twice the limb
\* (an even number, so the carry it receives changes nothing) reaches KILOBYTE
Dbl(x) ==
  Norm([i \in 1..(Len(x) + 1) |->
          (2 * Limb(x, i) + (IF 2 * Limb(x, i - 1) >= KILOBYTE THEN 1 ELSE 0))
            % KILOBYTE])

RECURSIVE SubBorrow(_, _, _)
\* x - y - b for x >= y + b
SubBorrow(x, y, b) ==
  IF x = <<>> THEN <<>>
  ELSE LET d == x[1] - Limb(y, 1) - b
       IN  <<IF d < 0 THEN d + KILOBYTE ELSE d>> \o
           SubBorrow(Tail(x), IF y = <<>> THEN <<>> ELSE Tail(y),
                     IF d < 0 THEN 1 ELSE 0)

Sub(x, y) == Norm(SubBorrow(x, y, 0))

IsOdd(x) == x # <<>> /\ x[1] % 2 = 1

\* floor(x / 2): a limb takes in KILOBYTE when the limb above it is odd
Half(x) ==
  Norm([i \in 1..Len(x) |->
          (x[i] + (IF Limb(x, i + 1) % 2 = 1 THEN KILOBYTE ELSE 0)) \div 2])

\* TRUE. TLC defers the evaluation of an operator's arguments; a loop tests
\* this of its next accumulator so that it is computed before the next round.
Evaluated(v) == v = v

\* The loops below run k rounds as k \div 2 rounds followed by the rest, which
\* keeps the depth of the evaluation logarithmic in k.

RECURSIVE DblTimes(_, _)
\* x * 2^k
DblTimes(x, k) ==
  IF k = 0 THEN x
  ELSE IF k = 1 THEN Dbl(x)
  ELSE LET y == DblTimes(x, k \div 2)
       IN  IF Evaluated(y) THEN DblTimes(y, k - k \div 2) ELSE y

Pow2(k) == DblTimes(<<1>>, k)

RECURSIVE BitSearch(_, _, _)
\* the least n in lo..hi with x < 2^n
BitSearch(x, lo, hi) ==
  IF lo = hi THEN lo
  ELSE LET mid == (lo + hi) \div 2
       IN  IF ~Geq(x, Pow2(mid)) THEN BitSearch(x, lo, mid)
           ELSE BitSearch(x, mid + 1, hi)

\* the number of significant bits of x (a limb is below 2^10)
BitLen(x) == IF Evaluated(x) THEN BitSearch(x, 0, 10 * Len(x)) ELSE 0

\* 2^52 and 2^53: an f64 carries 53 significant bits
MantissaBits == 53

\* m * 2^e rounded to an integer, ties to even, given the bits shifted out:
\* guard is the most significant of them, sticky says whether any other is set
RoundEven(m, guard, sticky) ==
  IF guard /\ (sticky \/ IsOdd(m)) THEN Add(m, <<1>>) ELSE m

RoundShifted(s) == RoundEven(s[1], s[2], s[3])

\* one halving of <<m, guard, sticky>>: the bit shifted out becomes the guard,
\* the old guard joins the sticky bits
ShrStep(t) == <<Half(t[1]), IsOdd(t[1]), t[3] \/ t[2]>>

RECURSIVE ShrBy(_, _)
\* t = <<m, guard, sticky>> halved cnt times
ShrBy(t, cnt) ==
  IF cnt = 0 THEN t
  ELSE IF cnt = 1 THEN ShrStep(t)
  ELSE LET u == ShrBy(t, cnt \div 2)
       IN  IF Evaluated(u) THEN ShrBy(u, cnt - cnt \div 2) ELSE u

\* m without its drop low bits, rounded
DropBits(m, sticky, drop) ==
  IF drop <= 0 THEN [m |-> m, e |-> 0]
  ELSE [m |-> RoundShifted(ShrBy(<<m, FALSE, sticky>>, drop)), e |-> drop]

\* m (with sticky saying whether bits below it were already dropped) rounded
\* to MantissaBits significant bits: the f64 [m |-> mantissa, e |-> exponent],
\* of value m * 2^e
RoundToF64(m, sticky) == DropBits(m, sticky, BitLen(m) - MantissaBits)

\* `bytes as f64`: the nearest f64, ties to even
AsF64(bytes) == RoundToF64(bytes, FALSE)

\* the integer an f64 with e >= 0 stands for
F64Int(f) == DblTimes(f.m, f.e)

\* f >= c for an integer-valued f64 f and an integer c
F64Geq(f, c) == Geq(F64Int(f), c)

RECURSIVE BitsOf(_, _)
\* the n low bits of x, least significant first
BitsOf(x, n) ==
  IF n = 0 THEN <<>>
  ELSE IF n = 1 THEN <<IF IsOdd(x) THEN 1 ELSE 0>>
  ELSE LET h == n \div 2
           lo == BitsOf(x, h)
           up == ShrBy(<<x, FALSE, FALSE>>, h)[1]
       IN  IF Evaluated(lo) /\ Evaluated(up) THEN lo \o BitsOf(up, n - h) ELSE lo

\* x + 1 for an even x
Succ(x) == IF x = <<>> THEN <<1>> ELSE [x EXCEPT ![1] = x[1] + 1]

\* the quotient takes in a 1 and the remainder gives up d when it reaches d
DivBit(q, r, d) ==
  IF Geq(r, d) THEN <<Succ(Dbl(q)), Sub(r, d)>> ELSE <<Dbl(q), r>>

\* one step of binary long division by d: <<quotient, remainder>> takes in
\* one more bit of the dividend
DivStep(qr, bit, d) ==
  DivBit(qr[1], IF bit = 1 THEN Succ(Dbl(qr[2])) ELSE Dbl(qr[2]), d)

RECURSIVE LongDiv(_, _, _, _, _)
\* binary long division by d: <<quotient, remainder>> takes in the bits
\* b[hi], b[hi - 1], ..., b[lo]
LongDiv(b, hi, lo, d, qr) ==
  IF hi < lo THEN qr
  ELSE IF hi = lo THEN DivStep(qr, b[hi], d)
  ELSE LET mid == (hi + lo) \div 2
           upper == LongDiv(b, hi, mid + 1, d, qr)
       IN  IF Evaluated(upper) THEN LongDiv(b, mid, lo, d, upper) ELSE upper

\* the zero bit, n times: the dividend's bits after the binary point
Zeros(n) == [i \in 1..n |-> 0]

\* the quotient <<q, r>> with 53 significant bits and fbits of them after the
\* binary point, rounded by the next bit (the guard) and the rest (sticky)
RoundQuotient(fb, fbits, last) ==
  [m |-> RoundEven(fb[1], last[1] # <<>>, last[2] # <<>>), e |-> 0 - fbits]

\* fraction bits up to MantissaBits significant bits, then the guard bit
ExtendQuotient(qr, fbits, d) ==
  LET fb == LongDiv(Zeros(fbits), fbits, 1, d, qr)
  IN  IF Evaluated(fb) THEN RoundQuotient(fb, fbits, DivStep(<<<<>>, fb[2]>>, 0, d))
      ELSE fb

\* the integer quotient <<q, r>>, q of qbits bits, as an f64
QuotientToF64(qr, qbits, d) ==
  IF qbits > MantissaBits
  THEN RoundToF64(qr[1], qr[2] # <<>>)   \* drop the low integer bits
  ELSE ExtendQuotient(qr, MantissaBits - qbits, d)

DivQuotient(qr, d) == IF Evaluated(qr) THEN QuotientToF64(qr, BitLen(qr[1]), d) ELSE qr

DivBitSeq(bs, n, d) ==
  IF Evaluated(bs) THEN DivQuotient(LongDiv(bs, n, 1, d, <<<<>>, <<>>>>), d) ELSE bs

DivInt(xi, n, d) == DivBitSeq(BitsOf(xi, n), n, d)

DivBits(xi, d) == IF Evaluated(xi) THEN DivInt(xi, BitLen(xi), d) ELSE xi

\* f64 division of an integer-valued f64 x >= d by the integer d > 0:
\* the nearest f64 to the quotient, ties to even
F64Div(x, d) == DivBits(F64Int(x), d)

\* the thousandths t as integer part and three fraction digits
SplitThousandths(t) ==
  [int |-> IF t = <<>> THEN <<>> ELSE Tail(t), frac |-> Limb(t, 1)]

\* m * 1000 * 2^e to the nearest integer, ties to even
Thousandths(m1000, e) ==
  IF e >= 0 THEN DblTimes(m1000, e)
  ELSE RoundShifted(ShrBy(<<m1000, FALSE, FALSE>>, 0 - e))

\* format!("{:.3}", f): the decimal with three fraction digits nearest to f,
\* ties to even, as [int |-> integer part (limbs), frac |-> 0..999]
Fixed3(f) ==
  IF Evaluated(f)
  THEN SplitThousandths(Thousandths(IF f.m = <<>> THEN <<>> ELSE <<0>> \o f.m, f.e))
  ELSE f

\* ------------------------------------------------------------------------
\* pretty_format_bytes
\* ------------------------------------------------------------------------

\* const MEGABYTE: f64 = 1_000_000.0
MEGABYTE == <<0, 0, 1>>
\* const GIGABYTE: f64 = 1_000_000_000.0
GIGABYTE == <<0, 0, 0, 1>>
\* const TERABYTE: f64 = 1_000_000_000_0.0   (eleven digits: 10^10)
TERABYTE == <<0, 0, 0, 10>>

\* no rendering
NoSize == [unit |-> "", scaled |-> FALSE, int |-> <<>>, frac |-> 0]

Rendered(unit, v) == [unit |-> unit, scaled |-> TRUE, int |-> v.int, frac |-> v.frac]

\* format!("{:.3}<unit>", fbytes / divisor)
Scaled(fbytes, divisor, unit) == Rendered(unit, Fixed3(F64Div(fbytes, divisor)))

\* the if-else chain on fbytes
FormatF64(bytes, fbytes) ==
  IF F64Geq(fbytes, TERABYTE) THEN Scaled(fbytes, TERABYTE, "TB")
  ELSE IF F64Geq(fbytes, GIGABYTE) THEN Scaled(fbytes, GIGABYTE, "GB")
  ELSE IF F64Geq(fbytes, MEGABYTE) THEN Scaled(fbytes, MEGABYTE, "MB")
  ELSE IF F64Geq(fbytes, ToBig(KILOBYTE)) THEN Scaled(fbytes, ToBig(KILOBYTE), "KB")
  ELSE [unit |-> "B", scaled |-> FALSE, int |-> bytes, frac |-> 0]

\* The rendering of a byte count: the unit, whether the value was scaled
\* (three fraction digits) and the digits printed.
pretty_format_bytes(bytes) ==
  LET fbytes == AsF64(bytes)
  IN  IF Evaluated(fbytes) THEN FormatF64(bytes, fbytes) ELSE NoSize

\* ------------------------------------------------------------------------
\* Strings and the filesystem
\* ------------------------------------------------------------------------

\* s.starts_with(c) for a one-character c
StartsWith(s, c) == Len(s) > 0 /\ s[1] = c

\* A filesystem node:
\*   name     its file name
\*   kind     "dir" or "file"
\*   len      metadata().len()
\*   readonly metadata().permissions().readonly()
\*   entries  a directory's children, in the order read_dir yields them
\*   fault    the one I/O call that fails on it, if any:
\*            "entry" the parent's read_dir iterator yields Err for it,
\*            "type"  DirEntry::file_type fails,
\*            "meta"  metadata (and so exists, is_dir, is_file) fails,
\*            "read"  read_dir on it fails
File(name, len, fault) ==
  [name |-> name, kind |-> "file", len |-> len, readonly |-> FALSE,
   entries |-> <<>>, fault |-> fault]

Dir(name, entries, fault) ==
  [name |-> name, kind |-> "dir", len |-> 0, readonly |-> FALSE,
   entries |-> entries, fault |-> fault]

\* what a path that names nothing resolves to
Missing ==
  [name |-> <<>>, kind |-> "none", len |-> 0, readonly |-> FALSE,
   entries |-> <<>>, fault |-> "meta"]

\* Path::exists, Path::is_dir, Path::is_file: false when metadata fails
Exists(n) == n.fault # "meta"
IsDir(n)  == n.kind = "dir" /\ n.fault # "meta"
IsFile(n) == n.kind = "file" /\ n.fault # "meta"

\* an io::Result<u64>
Ok(v) == [ok |-> TRUE, val |-> v]
Err   == [ok |-> FALSE, val |-> 0]

\* result = v
Assign(result, v) == v

\* result += v
AddAssign(result, v) == result + v

RECURSIVE get_size(_)
RECURSIVE SizeLoop(_, _, _)
\* the for loop of get_size over entries[i..], result so far
SizeLoop(entries, i, result) ==
  IF i > Len(entries) THEN Ok(result)
  ELSE LET e == entries[i]
       IN  IF e.fault = "entry" THEN Err                       \* entry?
           ELSE IF IsDir(e)
           THEN LET sub == get_size(e)
                IN  IF ~sub.ok THEN Err                        \* get_size(..)?
                    ELSE SizeLoop(entries, i + 1, AddAssign(result, sub.val))
           ELSE IF e.fault = "meta" THEN Err                   \* metadata()?
           ELSE SizeLoop(entries, i + 1, AddAssign(result, e.len))

get_size(n) ==
  IF IsDir(n)
  THEN IF n.fault = "read" THEN Err                            \* read_dir(&path)?
       ELSE SizeLoop(n.entries, 1, 0)
  ELSE IF n.fault = "meta" THEN Err                            \* metadata()?
  ELSE Ok(n.len)

\* PathBuf::join for a relative file name
Join(dir, name) ==
  IF Len(dir) > 0 /\ dir[Len(dir)] = "/" THEN dir \o name ELSE dir \o <<"/">> \o name

\* One piece of output.  kind is "header" ("{path}:"), "info" (the line of
\* display_info), "folder" or "file" (a line of display_dir, by colour),
\* "error" (an ERROR> line on stderr) or "usage".
Line(kind, spacing, path, detail) ==
  [kind |-> kind, spacing |-> spacing, path |-> path, detail |-> detail]

NoCount == [shown |-> FALSE, known |-> FALSE, n |-> 0]

\* display_info: [ok, lines].  (The "Sym" type needs a path that is_symlink
\* but neither is_dir nor is_file, a dangling link; run never describes one,
\* since exists() is false for it.)  The line is printed piecewise, so a failure
\* of get_size or symlink_metadata leaves it unfinished (complete = FALSE).
display_info(path, n, spacing) ==
  LET file_type == IF IsDir(n) THEN "Dir"
                   ELSE IF IsFile(n) THEN "File"
                   ELSE "???"
      count == IF ~IsDir(n) THEN NoCount
               ELSE IF n.fault = "read" THEN [shown |-> TRUE, known |-> FALSE, n |-> 0]
               ELSE [shown |-> TRUE, known |-> TRUE, n |-> Len(n.entries)]
      size == get_size(n)
      started == [ftype |-> file_type, count |-> count, complete |-> FALSE,
                  size |-> NoSize, readonly |-> FALSE]
  IN  IF ~size.ok \/ n.fault = "meta"                 \* get_size(path)?, symlink_metadata()?
      THEN [ok |-> FALSE, lines |-> <<Line("info", spacing, path, started)>>]
      ELSE [ok |-> TRUE,
            lines |-> <<Line("info", spacing, path,
                             [started EXCEPT !.complete = TRUE,
                                             !.size = pretty_format_bytes(ToBig(size.val)),
                                             !.readonly = n.readonly])>>]

\* the entries read successfully, hidden or not
ShownAll(e, show_dots) == e.fault # "entry"

\* the entries display_dir keeps: read successfully and not hidden
Shown(e, show_dots) ==
  e.fault # "entry" /\ ~(~show_dots /\ StartsWith(e.name, "."))

\* a file type that is always there
FileTypeNeverFails(e) == FALSE

\* entry.file_type()?
FileTypeFails(e) == e.fault = "type"

RECURSIVE Collect(_, _, _, _, _)
\* the first loop of display_dir over entries[i..]: [ok, folders, files]
Collect(entries, i, show_dots, folders, files) ==
  IF i > Len(entries) THEN [ok |-> TRUE, folders |-> folders, files |-> files]
  ELSE LET e == entries[i]
       IN  IF ~Shown(e, show_dots)
           THEN Collect(entries, i + 1, show_dots, folders, files)
           ELSE IF FileTypeFails(e)
           THEN [ok |-> FALSE, folders |-> folders, files |-> files]
           ELSE IF e.kind = "dir"
           THEN Collect(entries, i + 1, show_dots, Append(folders, e.name), files)
           ELSE Collect(entries, i + 1, show_dots, folders, Append(files, e.name))

\* display_dir: [ok, lines]; nothing is printed unless the whole directory
\* was read
display_dir(path, n, show_dots, spacing) ==
  IF n.fault = "read" \/ n.kind # "dir" THEN [ok |-> FALSE, lines |-> <<>>]   \* dir.read_dir()?
  ELSE LET c == Collect(n.entries, 1, show_dots, <<>>, <<>>)
       IN  IF ~c.ok THEN [ok |-> FALSE, lines |-> <<>>]
           ELSE [ok |-> TRUE,
                 lines |-> [i \in 1..Len(c.folders) |->
                              Line("folder", spacing, Join(path, c.folders[i]), <<>>)]
                           \o [i \in 1..Len(c.files) |->
                              Line("file", spacing, Join(path, c.files[i]), <<>>)]]

\* ------------------------------------------------------------------------
\* Bounds and inputs
\* ------------------------------------------------------------------------

\* the most argument tokens run is given
MaxArgs == 3
\* the most flag characters in one token
MaxCluster == 2

HelpTok == <<"-", "-", "h", "e", "l", "p">>
\* the flag characters; "x" stands for every character run does not know
FlagChars == {"a", "i", "I", "x"}
FlagTokens ==
  {<<"-">> \o c : c \in UNION {[1..k -> FlagChars] : k \in 0..MaxCluster}}
PathNames == {<<"p">>, <<"q">>}
Tokens == {HelpTok} \cup FlagTokens \cup PathNames

\* cur_dir()
cur_dir == <<".", "/">>

\* the targets run can be pointed at
PlainFile == File(<<"f">>, 5, "none")
ReadOnlyFile == [File(<<"r">>, 7, "none") EXCEPT !.readonly = TRUE]
GoodDir ==
  Dir(<<"g">>, <<Dir(<<"s">>, <<File(<<"x">>, 2, "none")>>, "none"),
                 File(<<".", "h">>, 1, "none"),
                 File(<<"a">>, 3, "none")>>, "none")
\* read_dir fails on it: neither described nor listed
UnreadableDir == Dir(<<"u">>, <<>>, "read")
\* a subdirectory cannot be read: get_size fails, the listing does not
BadSubDir ==
  Dir(<<"b">>, <<File(<<"a">>, 3, "none"), Dir(<<"s">>, <<>>, "read")>>, "none")
\* a child's file type cannot be read: the listing fails, get_size does not
BadTypeDir == Dir(<<"t">>, <<File(<<"a">>, 1, "type")>>, "none")
TargetNodes ==
  {Missing, PlainFile, ReadOnlyFile, GoodDir, UnreadableDir, BadSubDir, BadTypeDir}
FileSystems ==
  {f \in [PathNames \cup {cur_dir} -> TargetNodes] : f[cur_dir].kind = "dir"}
NoFs == [p \in PathNames \cup {cur_dir} |-> Missing]

\* the most nodes in a tree handed to get_size
MaxNodes == 4
\* the longest file, in bytes
MaxLen == 2
\* the most children of one directory handed to display_dir that fail
MaxFaults == 1
\* the most children of a directory handed to display_dir
MaxEntries == 3

\* the calls of get_size that can fail on a file and on a directory
FileFaults == {"entry", "meta"}
DirFaults  == {"entry", "meta", "read"}

\* names for the children of one directory, by position
Letters == <<"a", "b", "c", "d", "e", "f", "g", "h">>
WithNames(entries) ==
  [i \in 1..Len(entries) |-> [entries[i] EXCEPT !.name = <<Letters[i]>>]]

RECURSIVE Trees(_, _)
RECURSIVE Forests(_, _)
\* the sequences of trees with n nodes in all, f of them with a fault
Forests(n, f) ==
  IF n = 0 THEN (IF f = 0 THEN {<<>>} ELSE {})
  ELSE UNION {UNION {{<<t>> \o r : t \in Trees(k, g), r \in Forests(n - k, f - g)} :
                       g \in 0..f} : k \in 1..n}

\* the trees of k nodes of which f have a fault
Trees(k, f) ==
  IF k = 1
  THEN IF f = 0
       THEN {File(<<"n">>, l, "none") : l \in 1..MaxLen} \cup {Dir(<<"n">>, <<>>, "none")}
       ELSE IF f = 1
       THEN {File(<<"n">>, l, x) : l \in 1..MaxLen, x \in FileFaults}
            \cup {Dir(<<"n">>, <<>>, x) : x \in DirFaults}
       ELSE {}
  ELSE {Dir(<<"n">>, WithNames(r), "none") : r \in Forests(k - 1, f)}
       \cup (IF f = 0 THEN {}
             ELSE {Dir(<<"n">>, WithNames(r), x) : r \in Forests(k - 1, f - 1), x \in DirFaults})

\* the trees in which no call fails, and those in which one does
SizeInputs == UNION {Trees(k, f) : k \in 1..MaxNodes, f \in {0, 1}}

\* t with two neighbouring children of one directory in it exchanged: the
\* orders read_dir can yield are the ones reached by such exchanges
RECURSIVE Reordered(_)
Reordered(t) ==
  {[t EXCEPT !.entries = [t.entries EXCEPT ![i] = t.entries[i + 1],
                                           ![i + 1] = t.entries[i]]] :
     i \in 1..(Len(t.entries) - 1)}
  \cup UNION {{[t EXCEPT !.entries[i] = u] : u \in Reordered(t.entries[i])} :
                i \in 1..Len(t.entries)}

\* a child of a directory handed to display_dir: its kind, whether its name
\* starts with a dot, and its fault
ChildShapes == [kind : {"file", "dir"}, dot : BOOLEAN, fault : {"none", "entry", "type"}]

Child(c, i) ==
  LET name == (IF c.dot THEN <<".">> ELSE <<>>) \o <<Letters[i]>>
  IN  IF c.kind = "file" THEN File(name, 1, c.fault) ELSE Dir(name, <<>>, c.fault)

Faults(cs) == Cardinality({i \in 1..Len(cs) : cs[i].fault # "none"})

\* the directories that can be opened, and one that cannot
ListInputs ==
  {Dir(<<"d">>, [i \in 1..Len(cs) |-> Child(cs[i], i)], "none") :
     cs \in {c \in UNION {[1..k -> ChildShapes] : k \in 0..MaxEntries} :
               Faults(c) <= MaxFaults}}
  \cup {Dir(<<"d">>, <<>>, "read")}

\* u64::MAX
U64Max == <<615, 551, 709, 73, 744, 446, 18>>

\* Byte counts around every power of KILOBYTE a u64 reaches: a leading limb,
\* limbs of all zeros or all nines below it, and a lowest limb.
TopLimbs == {1, 9, 10, 18, 500, 999}
LowLimbs == {0, 1, 500, 999}
ByteInputs ==
  {b \in {Norm([i \in 1..k |-> IF i = k THEN top ELSE IF i = 1 THEN low ELSE fill]) :
            k \in 1..Len(U64Max), top \in TopLimbs, low \in LowLimbs, fill \in {0, 999}} :
     Geq(U64Max, b)}
  \cup {<<>>, U64Max}

\* ------------------------------------------------------------------------
\* State
\* ------------------------------------------------------------------------

VARIABLES
  \* run and main
  pc,           \* where run is: "parse", "cluster", "single", "single_list",
                \* "multi", "multi_list", "returned", "exited"
  fs,           \* what each path names, from the moment run first looks
  nargs,        \* argument tokens the loop has taken
  arg,          \* the loop variable of the argument loop
  chars,        \* the characters of arg still to be matched
  show_dots, only_info, appd_info,
  directories,
  idx,          \* position of the multi-target loop in directories
  succeeded,
  result,       \* what run returned
  exit_code,
  out,          \* everything printed, in order
  \* history
  given,        \* the tokens not starting with `-`, as they were given
  seen_I,       \* an `I` flag has been processed
  i_after_I,    \* an `i` flag has been processed after an `I` flag
  matched,      \* how many tokens of StickyExample the arguments taken so far
                \* are, -1 once they are not its beginning
  \* get_size on its own
  tree,         \* the tree under the path
  size,         \* what get_size returned for it
  sized,        \* whether get_size has returned
  first_size,   \* what it returned before the children were last reordered
  \* display_dir on its own
  dir,          \* the directory
  dots,         \* show_dots
  listing,      \* what display_dir returned and printed
  listed,       \* whether display_dir has returned
  \* pretty_format_bytes on its own
  bytes, formatted

runVars ==
  <<pc, fs, nargs, arg, chars, show_dots, only_info, appd_info, directories,
    idx, succeeded, result, exit_code, out, given, seen_I, i_after_I, matched>>
sizeVars == <<tree, size, sized, first_size>>
dirVars  == <<dir, dots, listing, listed>>
fmtVars  == <<bytes, formatted>>
\* what run leaves alone
aloneVars == <<sizeVars, dirVars, fmtVars>>
vars == <<runVars, aloneVars>>

\* Result<bool, String>, before and after run returns
Running == [kind |-> "Running", ok |-> FALSE, msg |-> "", ch |-> "", tok |-> <<>>]
RunOk(b) == [kind |-> "Ok", ok |-> b, msg |-> "", ch |-> "", tok |-> <<>>]
RunErr(msg) == [kind |-> "Err", ok |-> FALSE, msg |-> msg, ch |-> "", tok |-> <<>>]
\* format!("Unknown flag used. Don't recognize flag `{ch}` from `{arg}`")
UnknownFlag(ch, tok) ==
  [kind |-> "Err", ok |-> FALSE, msg |-> "Unknown flag used", ch |-> ch, tok |-> tok]

UsageLine == Line("usage", "", <<>>, "")
ErrorLine(msg) == Line("error", "", <<>>, msg)

RunStart ==
  /\ fs = NoFs
  /\ nargs = 0
  /\ arg = <<>>
  /\ chars = <<>>
  /\ show_dots = FALSE
  /\ only_info = FALSE
  /\ appd_info = FALSE
  /\ directories = <<>>
  /\ idx = 1
  /\ succeeded = 0
  /\ result = Running
  /\ exit_code = -1
  /\ out = <<>>
  /\ given = <<>>
  /\ seen_I = FALSE
  /\ i_after_I = FALSE
  /\ matched = 0

RunInit == pc = "parse" /\ RunStart
RunIdle == pc = "off" /\ RunStart

NotListed == [ok |-> FALSE, lines |-> <<>>]

SizeIdle == tree = Missing /\ size = Err /\ sized = FALSE /\ first_size = <<>>
DirIdle  == dir = Missing /\ dots = FALSE /\ listing = NotListed /\ listed = FALSE
FmtIdle  == bytes = <<>> /\ formatted = NoSize

Init == RunInit /\ SizeIdle /\ DirIdle /\ FmtIdle

\* ------------------------------------------------------------------------
\* run: the argument loop
\* ------------------------------------------------------------------------

\* the arguments `-i -I -i`
StickyExample == <<<<"-", "i">>, <<"-", "I">>, <<"-", "i">>>>

\* the next token of args, if the loop goes on
NextArg(tok) ==
  /\ pc = "parse"
  /\ nargs < MaxArgs
  /\ tok \in Tokens
  /\ nargs' = nargs + 1
  /\ arg' = tok
  /\ given' = IF StartsWith(tok, "-") THEN given ELSE Append(given, tok)
  /\ matched' = IF matched = nargs /\ nargs < Len(StickyExample)
                    /\ tok = StickyExample[nargs + 1]
                 THEN nargs + 1 ELSE -1

\* only_info = true, whatever appd_info is
OnlyInfoAlways(only, appd) == TRUE

\* if !appd_info { only_info = true; }
OnlyInfoFlag(only, appd) == IF ~appd THEN TRUE ELSE only

\* the `i` arm without its test of appd_info
ClusterOnlyInfoAlways(only, appd) == TRUE

\* what the `i` arm of the cluster match leaves in only_info
ClusterOnlyInfoFlag(only, appd) == IF ~appd THEN TRUE ELSE only

\* directories.push(PathBuf::from(arg))
PushDirectory(dirs, tok) == Append(dirs, tok)

\* arg == "--help": usage(program); return Ok(true)
ArgHelp ==
  \E tok \in Tokens :
    /\ NextArg(tok)
    /\ tok = HelpTok
    /\ out' = Append(out, UsageLine)
    /\ result' = RunOk(TRUE)
    /\ pc' = "returned"
    /\ UNCHANGED <<aloneVars, fs, chars, show_dots, only_info, appd_info, directories, idx,
                   succeeded, exit_code, seen_I, i_after_I>>

\* arg == "-a"
ArgShowDots ==
  \E tok \in Tokens :
    /\ NextArg(tok)
    /\ tok = <<"-", "a">>
    /\ show_dots' = TRUE
    /\ UNCHANGED <<aloneVars, pc, fs, chars, only_info, appd_info, directories, idx,
                   succeeded, result, exit_code, out, seen_I, i_after_I>>

\* arg == "-i"
ArgOnlyInfo ==
  \E tok \in Tokens :
    /\ NextArg(tok)
    /\ tok = <<"-", "i">>
    /\ only_info' = OnlyInfoFlag(only_info, appd_info)
    /\ i_after_I' = (i_after_I \/ seen_I)
    /\ UNCHANGED <<aloneVars, pc, fs, chars, show_dots, appd_info, directories, idx,
                   succeeded, result, exit_code, out, seen_I>>

\* arg == "-I"
ArgAppendInfo ==
  \E tok \in Tokens :
    /\ NextArg(tok)
    /\ tok = <<"-", "I">>
    /\ appd_info' = TRUE
    /\ only_info' = FALSE
    /\ seen_I' = TRUE
    /\ UNCHANGED <<aloneVars, pc, fs, chars, show_dots, directories, idx, succeeded,
                   result, exit_code, out, i_after_I>>

\* arg.starts_with("-"), none of the above: let mut chars = arg.chars().skip(1)
ArgCluster ==
  \E tok \in Tokens :
    /\ NextArg(tok)
    /\ tok \notin {HelpTok, <<"-", "a">>, <<"-", "i">>, <<"-", "I">>}
    /\ StartsWith(tok, "-")
    /\ chars' = Tail(tok)
    /\ pc' = "cluster"
    /\ UNCHANGED <<aloneVars, fs, show_dots, only_info, appd_info, directories, idx,
                   succeeded, result, exit_code, out, seen_I, i_after_I>>

\* while let Some(ch) = chars.next() { match ch { ... } }
ClusterChar ==
  /\ pc = "cluster"
  /\ chars # <<>>
  /\ chars' = Tail(chars)
  /\ LET ch == Head(chars)
     IN  \/ /\ ch = "a"
            /\ show_dots' = TRUE
            /\ UNCHANGED <<aloneVars, pc, only_info, appd_info, result, seen_I, i_after_I>>
         \/ /\ ch = "i"
            /\ only_info' = ClusterOnlyInfoFlag(only_info, appd_info)
            /\ i_after_I' = (i_after_I \/ seen_I)
            /\ UNCHANGED <<aloneVars, pc, show_dots, appd_info, result, seen_I>>
         \/ /\ ch = "I"
            /\ appd_info' = TRUE
            /\ only_info' = FALSE
            /\ seen_I' = TRUE
            /\ UNCHANGED <<aloneVars, pc, show_dots, result, i_after_I>>
         \/ /\ ch \notin {"a", "i", "I"}
            /\ result' = UnknownFlag(ch, arg)
            /\ pc' = "returned"
            /\ UNCHANGED <<aloneVars, show_dots, only_info, appd_info, seen_I, i_after_I>>
  /\ UNCHANGED <<aloneVars, fs, nargs, arg, directories, idx, succeeded, exit_code, out,
                 given, matched>>

\* the cluster is used up: continue
ClusterEnd ==
  /\ pc = "cluster"
  /\ chars = <<>>
  /\ pc' = "parse"
  /\ UNCHANGED <<aloneVars, fs, nargs, arg, chars, show_dots, only_info, appd_info,
                 directories, idx, succeeded, result, exit_code, out, given,
                 seen_I, i_after_I, matched>>

\* else: directories.push(PathBuf::from(arg))
ArgPath ==
  \E tok \in Tokens :
    /\ NextArg(tok)
    /\ ~StartsWith(tok, "-")
    /\ directories' = PushDirectory(directories, tok)
    /\ UNCHANGED <<aloneVars, pc, fs, chars, show_dots, only_info, appd_info, idx,
                   succeeded, result, exit_code, out, seen_I, i_after_I>>

\* directories as the loop left it
WithoutDefault(dirs) == dirs

\* if directories.is_empty() { directories.push(cur_dir()); }
WithDefault(dirs) == IF dirs = <<>> THEN <<cur_dir>> ELSE dirs

\* The arguments are used up.  From here on run looks at the filesystem,
\* whose contents are whatever they are and stay so while run works.
ArgsEnd ==
  /\ pc = "parse"
  /\ directories' = WithDefault(directories)
  /\ pc' = IF Len(directories') = 1 THEN "single" ELSE "multi"
  /\ fs' \in FileSystems
  /\ nargs' = 0 /\ arg' = <<>>          \* the loop's own, gone with it
  /\ UNCHANGED <<aloneVars, chars, show_dots, only_info, appd_info, idx,
                 succeeded, result, exit_code, out, given, seen_I, i_after_I, matched>>

\* ------------------------------------------------------------------------
\* run: one target (directories.len() == 1)
\* ------------------------------------------------------------------------

NotFoundMsg == "Item doesn't exist!"
MetadataMsg == "Failed to get metadata"
ReadDirMsg  == "Problem happened while attempting to read directory"

\* if !path.is_dir() || only_info
InfoOnly(n, only) == ~IsDir(n) \/ only

\* let spacing = "  " of the multi-target loop
spacing == "  "
\* the spacing the multi-target loop passes to display_info ahead of a listing
AppendInfoSpacing == ""

\* if !path.exists() { return Err("Item doesn't exist!".into()); }
SingleMissing ==
  /\ pc = "single"
  /\ ~Exists(fs[directories[1]])
  /\ result' = RunErr(NotFoundMsg)
  /\ pc' = "returned"
  /\ UNCHANGED <<aloneVars, fs, nargs, arg, chars, show_dots, only_info, appd_info,
                 directories, idx, succeeded, exit_code, out, given, seen_I,
                 i_after_I, matched>>

\* print!("{}:", path.display()); match display_info(path, "") { ... }
SingleInfo ==
  /\ pc = "single"
  /\ LET path == directories[1]
         info == display_info(path, fs[path], "")
     IN  /\ Exists(fs[path])
         /\ InfoOnly(fs[path], only_info)
         /\ out' = out \o <<Line("header", "", path, "")>> \o info.lines
         /\ result' = IF info.ok THEN RunOk(TRUE) ELSE RunErr(MetadataMsg)
  /\ pc' = "returned"
  /\ UNCHANGED <<aloneVars, fs, nargs, arg, chars, show_dots, only_info, appd_info,
                 directories, idx, succeeded, exit_code, given, seen_I,
                 i_after_I, matched>>

\* the same with the Err arm printing nothing
AppendInfoQuiet(path, n, appd, sp) ==
  IF ~appd THEN <<>> ELSE display_info(path, n, sp).lines

\* what `if appd_info { match display_info(path, sp) { ... } }` prints
AppendInfo(path, n, appd, sp) ==
  IF ~appd THEN <<>>
  ELSE LET info == display_info(path, n, sp)
       IN  info.lines \o (IF info.ok THEN <<>> ELSE <<ErrorLine(MetadataMsg)>>)

\* the else branch, up to the listing
SingleAppendInfo ==
  /\ pc = "single"
  /\ LET path == directories[1]
     IN  /\ Exists(fs[path])
         /\ ~InfoOnly(fs[path], only_info)
         /\ out' = out \o AppendInfo(path, fs[path], appd_info, "")
  /\ pc' = "single_list"
  /\ UNCHANGED <<aloneVars, fs, nargs, arg, chars, show_dots, only_info, appd_info,
                 directories, idx, succeeded, result, exit_code, given, seen_I,
                 i_after_I, matched>>

\* match display_dir(path, show_dots, "") { ... }
SingleList ==
  /\ pc = "single_list"
  /\ LET path == directories[1]
         list == display_dir(path, fs[path], show_dots, "")
     IN  /\ out' = out \o list.lines
         /\ result' = IF list.ok THEN RunOk(TRUE) ELSE RunErr(ReadDirMsg)
  /\ pc' = "returned"
  /\ UNCHANGED <<aloneVars, fs, nargs, arg, chars, show_dots, only_info, appd_info,
                 directories, idx, succeeded, exit_code, given, seen_I,
                 i_after_I, matched>>

\* ------------------------------------------------------------------------
\* run: several targets
\* ------------------------------------------------------------------------

\* println!("{}:", path.display())
Header(path) == Line("header", "", path, "")

\* if !path.exists() { eprintln!(..); continue; }
MultiMissing ==
  /\ pc = "multi"
  /\ idx <= Len(directories)
  /\ LET path == directories[idx]
     IN  /\ ~Exists(fs[path])
         /\ out' = out \o <<Header(path), ErrorLine(NotFoundMsg)>>
  /\ idx' = idx + 1
  /\ UNCHANGED <<aloneVars, pc, fs, nargs, arg, chars, show_dots, only_info, appd_info,
                 directories, succeeded, result, exit_code, given, seen_I,
                 i_after_I, matched>>

\* if !path.is_dir() || only_info { match display_info(path, spacing) {..}; continue; }
MultiInfo ==
  /\ pc = "multi"
  /\ idx <= Len(directories)
  /\ LET path == directories[idx]
         info == display_info(path, fs[path], spacing)
     IN  /\ Exists(fs[path])
         /\ InfoOnly(fs[path], only_info)
         /\ out' = out \o <<Header(path)>> \o info.lines
                       \o (IF info.ok THEN <<>> ELSE <<ErrorLine(MetadataMsg)>>)
         /\ succeeded' = IF info.ok THEN succeeded + 1 ELSE succeeded
  /\ idx' = idx + 1
  /\ UNCHANGED <<aloneVars, pc, fs, nargs, arg, chars, show_dots, only_info, appd_info,
                 directories, result, exit_code, given, seen_I, i_after_I, matched>>

\* a directory to list: if appd_info { match display_info(path, "") {..} }
MultiAppendInfo ==
  /\ pc = "multi"
  /\ idx <= Len(directories)
  /\ LET path == directories[idx]
     IN  /\ Exists(fs[path])
         /\ ~InfoOnly(fs[path], only_info)
         /\ out' = out \o <<Header(path)>>
                       \o AppendInfo(path, fs[path], appd_info, AppendInfoSpacing)
  /\ pc' = "multi_list"
  /\ UNCHANGED <<aloneVars, fs, nargs, arg, chars, show_dots, only_info, appd_info,
                 directories, idx, succeeded, result, exit_code, given, seen_I,
                 i_after_I, matched>>

\* match display_dir(path, show_dots, spacing) { ... }
MultiList ==
  /\ pc = "multi_list"
  /\ LET path == directories[idx]
         list == display_dir(path, fs[path], show_dots, spacing)
     IN  /\ out' = out \o list.lines
                       \o (IF list.ok THEN <<>> ELSE <<ErrorLine(ReadDirMsg)>>)
         /\ succeeded' = IF list.ok THEN succeeded + 1 ELSE succeeded
  /\ idx' = idx + 1
  /\ pc' = "multi"
  /\ UNCHANGED <<aloneVars, fs, nargs, arg, chars, show_dots, only_info, appd_info,
                 directories, result, exit_code, given, seen_I, i_after_I, matched>>

\* succeeded > 1
SeveralSucceeded(n) == n > 1

\* succeeded > 0
AnySucceeded(n) == n > 0

\* return Ok(succeeded > 0)
MultiReturn ==
  /\ pc = "multi"
  /\ idx > Len(directories)
  /\ result' = RunOk(AnySucceeded(succeeded))
  /\ pc' = "returned"
  /\ UNCHANGED <<aloneVars, fs, nargs, arg, chars, show_dots, only_info, appd_info,
                 directories, idx, succeeded, exit_code, out, given, seen_I,
                 i_after_I, matched>>

\* ------------------------------------------------------------------------
\* main
\* ------------------------------------------------------------------------

\* match run(&program, args) { Ok(ok) => .., Err(err) => { eprintln!; usage; FAILURE } }
Main ==
  /\ pc = "returned"
  /\ pc' = "exited"
  /\ exit_code' = IF result.kind = "Ok" /\ result.ok THEN 0 ELSE 1
  /\ out' = IF result.kind = "Err" THEN out \o <<ErrorLine(result.msg), UsageLine>>
            ELSE out
  /\ UNCHANGED <<aloneVars, fs, nargs, arg, chars, show_dots, only_info, appd_info,
                 directories, idx, succeeded, result, given, seen_I, i_after_I, matched>>

Next ==
  \/ ArgHelp \/ ArgShowDots \/ ArgOnlyInfo \/ ArgAppendInfo \/ ArgCluster
  \/ ClusterChar \/ ClusterEnd \/ ArgPath \/ ArgsEnd
  \/ SingleMissing \/ SingleInfo \/ SingleAppendInfo \/ SingleList
  \/ MultiMissing \/ MultiInfo \/ MultiAppendInfo \/ MultiList \/ MultiReturn
  \/ Main

Spec == Init /\ [][Next]_vars

\* ------------------------------------------------------------------------
\* get_size on its own: a tree, and the orders its children are read in
\* ------------------------------------------------------------------------

SizeInit ==
  /\ tree \in SizeInputs
  /\ size = Err /\ sized = FALSE /\ first_size = <<>>
  /\ RunIdle /\ DirIdle /\ FmtIdle

GetSize ==
  /\ ~sized
  /\ size' = get_size(tree)
  /\ sized' = TRUE
  /\ UNCHANGED <<tree, first_size, runVars, dirVars, fmtVars>>

\* the same tree, its children read in another order
Reorder ==
  /\ sized
  /\ tree' \in Reordered(tree)
  /\ first_size' = IF first_size = <<>> THEN <<size>> ELSE first_size
  /\ sized' = FALSE
  /\ UNCHANGED <<size, runVars, dirVars, fmtVars>>

SizeNext == GetSize \/ Reorder

SpecSize == SizeInit /\ [][SizeNext]_vars

\* ------------------------------------------------------------------------
\* display_dir on its own
\* ------------------------------------------------------------------------

DirInit ==
  /\ dir \in ListInputs
  /\ dots \in BOOLEAN
  /\ listing = NotListed /\ listed = FALSE
  /\ RunIdle /\ SizeIdle /\ FmtIdle

ListDir ==
  /\ ~listed
  /\ listing' = display_dir(dir.name, dir, dots, "")
  /\ listed' = TRUE
  /\ UNCHANGED <<dir, dots, runVars, sizeVars, fmtVars>>

\* the same directory again, with the other show_dots
ToggleDots ==
  /\ listed
  /\ dots' = ~dots
  /\ listed' = FALSE
  /\ UNCHANGED <<dir, listing, runVars, sizeVars, fmtVars>>

DirNext == ListDir \/ ToggleDots

SpecDir == DirInit /\ [][DirNext]_vars

\* ------------------------------------------------------------------------
\* pretty_format_bytes on its own
\* ------------------------------------------------------------------------

FmtInit ==
  /\ bytes \in ByteInputs
  /\ formatted = NoSize
  /\ RunIdle /\ SizeIdle /\ DirIdle

FormatBytes ==
  /\ formatted = NoSize
  /\ formatted' = pretty_format_bytes(bytes)
  /\ UNCHANGED <<bytes, runVars, sizeVars, dirVars>>

FmtNext == FormatBytes

SpecFmt == FmtInit /\ [][FmtNext]_vars

\* ------------------------------------------------------------------------
\* What the properties are stated with
\* ------------------------------------------------------------------------

\* run has left the argument loop and looked at the filesystem
Parsed == fs # NoFs
\* run is in, or has returned from, the loop over several targets
MultiMode == Parsed /\ Len(directories) >= 2
SingleMode == Parsed /\ Len(directories) = 1

IsHeader(l) == l.kind = "header"
IsNotFound(l) == l = ErrorLine(NotFoundMsg)
IsDetail(l) == l.kind \in {"info", "folder", "file"}

\* the targets the loop over several targets is done with
Visited == 1..(idx - 1)

\* a target that is described: its description succeeded; a directory that
\* is listed: its listing succeeded
TargetSucceeds(path) ==
  LET n == fs[path]
  IN  /\ Exists(n)
      /\ IF ~IsDir(n) \/ only_info
         THEN display_info(path, n, spacing).ok
         ELSE display_dir(path, n, show_dots, spacing).ok

\* the characters of a flag token that run does not know
UnknownAt(tok) == {k \in 2..Len(tok) : tok[k] \notin {"a", "i", "I"}}
Deciding(tok) == tok = HelpTok \/ (StartsWith(tok, "-") /\ UnknownAt(tok) # {})

\* ------------------------------------------------------------------------
\* Properties of run
\* ------------------------------------------------------------------------

\* C2: at every point of run, during the argument loop and after it,
\* whatever tokens and cluster characters have been processed, only_info and
\* appd_info are not both true.
C2_MutuallyExclusive == ~(only_info /\ appd_info)

\* the cluster `-Ii` has been gone through
C2_Witness ==
  pc = "cluster" /\ arg = <<"-", "I", "i">> /\ chars = <<>> /\ appd_info

\* C3: once an `I` flag has been processed, as the token -I or inside a
\* cluster, appd_info is true and only_info is false from then on, whatever
\* `i` flags follow; and after the arguments -i -I -i only_info is false and
\* appd_info is true.
C3_Sticky ==
  /\ seen_I => appd_info /\ ~only_info
  /\ matched = Len(StickyExample) => appd_info /\ ~only_info

\* the arguments were -i -I -i
C3_Witness == matched = Len(StickyExample) /\ i_after_I /\ seen_I

\* C4: with two or more targets, run prints the header of every target in
\* the order given whatever became of the earlier ones, prints the NotFound
\* error exactly once for each target that does not exist, right after its
\* header, counts exactly the targets that succeeded, and returns Ok(true) if
\* one of the targets succeeded and Ok(false), not an Err, if none did.
C4_MultiTarget ==
  MultiMode =>
    LET headers == SelectSeq(out, IsHeader)
        started == IF pc = "multi_list" THEN idx ELSE idx - 1
    IN  /\ headers = [i \in 1..started |-> Header(directories[i])]
        /\ Len(SelectSeq(out, IsNotFound))
             = Cardinality({i \in Visited : ~Exists(fs[directories[i]])})
        /\ \A k \in 1..Len(out) :
             IsNotFound(out[k]) =>
               k > 1 /\ IsHeader(out[k - 1]) /\ ~Exists(fs[out[k - 1].path])
        /\ succeeded = Cardinality({i \in Visited : TargetSucceeds(directories[i])})
        /\ pc \in {"returned", "exited"} =>
             /\ idx = Len(directories) + 1
             /\ result = RunOk(\E i \in 1..Len(directories) :
                                 TargetSucceeds(directories[i]))
             /\ pc = "exited" => exit_code = IF result.ok THEN 0 ELSE 1

\* the first of two targets does not exist, the second is a file
C4_Witness ==
  /\ pc = "returned" /\ MultiMode /\ Len(directories) = 2
  /\ ~Exists(fs[directories[1]])
  /\ IsFile(fs[directories[2]])
  /\ result = RunOk(TRUE)
  /\ Len(SelectSeq(out, IsNotFound)) = 1

\* C5: the argument loop prints nothing and looks at no target; it goes on
\* only past tokens that are neither --help nor a flag token with an unknown
\* character.  --help ends run with the usage printed and Ok(true); an unknown
\* character ends it with the error naming the first such character of the
\* token and the token; in both cases nothing is described or listed.
\* Otherwise the targets are the tokens not starting with `-`, in the order
\* given, or cur_dir() alone if there are none.
C5_Parsing ==
  /\ pc \in {"parse", "cluster"} =>
       /\ out = <<>> /\ ~Parsed
       /\ directories = given
       /\ pc = "parse" /\ nargs > 0 => ~Deciding(arg)
  /\ ~Parsed /\ pc \in {"returned", "exited"} =>
       /\ Deciding(arg)
       /\ \A k \in 1..Len(out) : ~IsHeader(out[k]) /\ ~IsDetail(out[k])
       /\ arg = HelpTok =>
            /\ result = RunOk(TRUE)
            /\ out = <<UsageLine>>
            /\ pc = "exited" => exit_code = 0
       /\ arg # HelpTok =>
            /\ result = UnknownFlag(arg[CHOOSE k \in UnknownAt(arg) :
                                          \A j \in UnknownAt(arg) : k <= j], arg)
            /\ out = IF pc = "returned" THEN <<>>
                     ELSE <<ErrorLine(result.msg), UsageLine>>
            /\ pc = "exited" => exit_code = 1
  /\ Parsed => directories = IF given = <<>> THEN <<cur_dir>> ELSE given

\* an unknown flag after a path: the path is not looked at
C5_Witness ==
  /\ pc = "exited" /\ ~Parsed
  /\ given # <<>>
  /\ result.kind = "Err"
  /\ exit_code = 1

\* C8: with two or more targets, every line that describes a target or
\* lists one of its entries starts with the two spaces.
C8_Indented ==
  MultiMode => \A k \in 1..Len(out) : IsDetail(out[k]) => out[k].spacing = spacing

\* C10: for a target that is a directory, with appd_info set and only_info
\* clear, whose description fails: the failure is logged after what the
\* description printed, the listing comes next, and what run returns (one
\* target) or counts (several) is decided by the listing alone.
C10_InfoFailureNotFatal ==
  appd_info /\ ~only_info =>
    /\ SingleMode =>
         LET path == directories[1]
             info == display_info(path, fs[path], "")
             list == display_dir(path, fs[path], show_dots, "")
         IN  IsDir(fs[path]) /\ ~info.ok =>
               /\ pc \in {"single_list", "returned", "exited"} =>
                    /\ Len(out) > Len(info.lines)
                    /\ SubSeq(out, 1, Len(info.lines) + 1)
                         = info.lines \o <<ErrorLine(MetadataMsg)>>
               /\ pc = "returned" =>
                    /\ out = info.lines \o <<ErrorLine(MetadataMsg)>> \o list.lines
                    /\ result = IF list.ok THEN RunOk(TRUE) ELSE RunErr(ReadDirMsg)
    /\ MultiMode =>
         /\ pc = "multi_list" /\ ~display_info(directories[idx], fs[directories[idx]], "").ok =>
              out[Len(out)] = ErrorLine(MetadataMsg)
         /\ succeeded =
              Cardinality({i \in Visited :
                 LET n == fs[directories[i]]
                 IN  /\ Exists(n)
                     /\ IF IsDir(n)
                        THEN display_dir(directories[i], n, show_dots, spacing).ok
                        ELSE display_info(directories[i], n, spacing).ok})
         /\ \A i \in Visited :
              LET path == directories[i]
                  info == display_info(path, fs[path], "")
              IN  IsDir(fs[path]) /\ ~info.ok =>
                    \E k \in 2..Len(out) :
                      /\ out[k] = ErrorLine(MetadataMsg)
                      /\ out[k - 1].kind = "info" /\ out[k - 1].path = path

\* a directory whose size cannot be computed is listed all the same, and run
\* returns Ok(true)
C10_Witness ==
  /\ pc = "returned" /\ SingleMode /\ appd_info /\ ~only_info
  /\ fs[directories[1]] = BadSubDir
  /\ result = RunOk(TRUE)
  /\ Len(out) = 4

\* ------------------------------------------------------------------------
\* Properties of get_size
\* ------------------------------------------------------------------------

NoFaults(t) ==
  LET RECURSIVE Clean(_)
      Clean(n) == n.fault = "none" /\ \A i \in 1..Len(n.entries) : Clean(n.entries[i])
  IN  Clean(t)

RECURSIVE TotalLen(_)
RECURSIVE SumOver(_, _)
\* the lengths of the files under the entries at the positions in I, summed
SumOver(entries, I) ==
  IF I = {} THEN 0
  ELSE LET i == CHOOSE i \in I : TRUE
       IN  TotalLen(entries[i]) + SumOver(entries, I \ {i})
\* the lengths of the files in t, summed
TotalLen(t) ==
  IF t.kind = "file" THEN t.len ELSE SumOver(t.entries, DOMAIN t.entries)

\* C6: for a tree of directories and files all of whose reads succeed,
\* get_size returns the sum of the lengths of the files in it, nested ones
\* included and directories counting nothing; it returns the same after the
\* children are read in another order; and for a file it returns the file's
\* length.  (The sums stay far below 2^64, where `result +=` would overflow.)
C6_SizeIsSum ==
  sized /\ NoFaults(tree) =>
    /\ size = Ok(TotalLen(tree))
    /\ first_size # <<>> => size = first_size[1]
    /\ tree.kind = "file" => size = Ok(tree.len)

\* a directory holding a file and a subdirectory with a file, sized again
\* after its children changed places
C6_Witness ==
  /\ sized /\ NoFaults(tree) /\ first_size # <<>>
  /\ Len(tree.entries) = 2
  /\ tree.entries[1].kind = "file"
  /\ tree.entries[2].kind = "dir" /\ Len(tree.entries[2].entries) = 1
  /\ tree.entries[2].entries[1].kind = "file"
  /\ size = Ok(tree.entries[1].len + tree.entries[2].entries[1].len)
  /\ tree.entries[1].len # tree.entries[2].entries[1].len

\* ------------------------------------------------------------------------
\* Properties of display_dir
\* ------------------------------------------------------------------------

\* the positions of the children display_dir is to print
Printable ==
  {i \in 1..Len(dir.entries) :
     /\ dir.entries[i].fault # "entry"
     /\ dots \/ ~StartsWith(dir.entries[i].name, ".")}

\* the position of the child a line names
ChildOf(l) == CHOOSE i \in 1..Len(dir.entries) : l.path = Join(dir.name, dir.entries[i].name)

\* the lines are the children at the positions in I, once each, directories
\* first, each group in the order of the positions
StablePartition(lines, I) ==
  /\ \A i \in I :
       Cardinality({k \in 1..Len(lines) :
                      lines[k].path = Join(dir.name, dir.entries[i].name)}) = 1
  /\ \A k \in 1..Len(lines) :
       /\ \E i \in I : lines[k].path = Join(dir.name, dir.entries[i].name)
       /\ lines[k].kind = IF dir.entries[ChildOf(lines[k])].kind = "dir"
                          THEN "folder" ELSE "file"
  /\ \A k, l \in 1..Len(lines) :
       k < l =>
         /\ lines[k].kind = "file" => lines[l].kind = "file"
         /\ lines[k].kind = lines[l].kind => ChildOf(lines[k]) < ChildOf(lines[l])

\* C7: when display_dir succeeds, it prints every child that was read and is
\* not hidden (every child that was read, with show_dots) exactly once, as a
\* directory or as a file, the directories before the files and each group
\* in the order the children were read; without show_dots it prints no name
\* starting with a dot.
C7_StablePartition ==
  listed /\ listing.ok =>
    /\ StablePartition(listing.lines, Printable)
    /\ ~dots => \A k \in 1..Len(listing.lines) :
                  ~StartsWith(dir.entries[ChildOf(listing.lines[k])].name, ".")

\* file, directory, file, one of them hidden: the directory comes first
C7_Witness ==
  /\ listed /\ listing.ok /\ ~dots
  /\ Len(dir.entries) = 3
  /\ dir.entries[1].kind = "file" /\ dir.entries[2].kind = "dir"
  /\ dir.entries[3].kind = "file"
  /\ StartsWith(dir.entries[1].name, ".")
  /\ Len(listing.lines) = 2
  /\ listing.lines[1].kind = "folder"

\* a child that cannot be read, or whose file type cannot be read
EntryFails(e) == e.fault \in {"entry", "type"}

\* C9 as stated: when the directory can be opened, display_dir returns Ok
\* and prints every child that is not hidden except those whose entry or
\* file type cannot be read.
C9_AnyFailureSkipped ==
  listed /\ dir.fault # "read" =>
    /\ listing.ok
    /\ StablePartition(listing.lines,
                       {i \in Printable : ~EntryFails(dir.entries[i])})

\* C9: when the directory can be opened, a child whose entry cannot be read
\* is left out and nothing else changes: display_dir returns Ok and prints
\* the other children, unless the file type of a child that was read and is
\* not hidden cannot be read; then display_dir returns the error and prints
\* nothing.
C9_EntryFailureSkipped ==
  listed /\ dir.fault # "read" =>
    IF \E i \in Printable : dir.entries[i].fault = "type"
    THEN ~listing.ok /\ listing.lines = <<>>
    ELSE listing.ok /\ StablePartition(listing.lines, Printable)

\* a child that cannot be read between two that are printed
C9_Witness ==
  /\ listed /\ listing.ok
  /\ Len(dir.entries) = 3
  /\ dir.entries[2].fault = "entry"
  /\ Len(listing.lines) = 2

\* ------------------------------------------------------------------------
\* Properties of pretty_format_bytes
\* ------------------------------------------------------------------------

\* 10^3, 10^6, 10^9, 10^12
TenTo3  == <<0, 1>>
TenTo6  == <<0, 0, 1>>
TenTo9  == <<0, 0, 0, 1>>
TenTo12 == <<0, 0, 0, 0, 1>>

\* the printed value in thousandths
PrintedThousandths(r) == Norm(<<r.frac>> \o r.int)

\* r shows b / 1000^(j+1) with unit, to three digits: the thousandths printed
\* are b / 1000^j rounded down or up
Shows(r, b, j, unit) ==
  LET floor == SubSeq(b, j + 1, Len(b))
  IN  /\ r.unit = unit /\ r.scaled
      /\ PrintedThousandths(r) \in {floor, Add(floor, <<1>>)}

\* C1: pretty_format_bytes renders b in TB when b >= 10^12, else in GB when
\* b >= 10^9, else in MB when b >= 10^6, else in KB when b >= 10^3, else as
\* the integer b with "B"; the value printed is b divided by the unit.
C1_DecimalThresholds ==
  formatted # NoSize =>
    IF Geq(bytes, TenTo12) THEN Shows(formatted, bytes, 3, "TB")
    ELSE IF Geq(bytes, TenTo9) THEN Shows(formatted, bytes, 2, "GB")
    ELSE IF Geq(bytes, TenTo6) THEN Shows(formatted, bytes, 1, "MB")
    ELSE IF Geq(bytes, TenTo3) THEN Shows(formatted, bytes, 0, "KB")
    ELSE formatted = [unit |-> "B", scaled |-> FALSE, int |-> bytes, frac |-> 0]
====
